---- MODULE Spec2Model ----
(***************************************************************************)
(* A model of dsky.rs (src/src/lib.rs): the Dark Sky forecast client.      *)
(*                                                                         *)
(*   DarkskyResult::new        build the URL, one GET, read the body,      *)
(*                             parse the JSON into the typed model         *)
(*   get_unit, get_weather_icon, get_current_weather_str, Display::fmt     *)
(*                             the one-line summary of current conditions  *)
(*   #[derive(Serialize, Deserialize)]  the wire <-> model mapping         *)
(*                                                                         *)
(* Text is a sequence of characters (one-character strings; a character    *)
(* outside ASCII is written as its code point, "U+00B0").  A JSON number   *)
(* is its decimal literal: mantissa m and e digits after the point.        *)
(***************************************************************************)
EXTENDS Integers, Sequences, FiniteSets, TLC

VARIABLES pc, calls, requests, args, response_body, result, out

vars == <<pc, calls, requests, args, response_body, result, out>>

----------------------------------------------------------------------------
(* Characters and decimal digits                                           *)

Digits == <<"0", "1", "2", "3", "4", "5", "6", "7", "8", "9">>

DigitSet == {Digits[i] : i \in 1..10}

DigitChar(d) == Digits[d + 1]

DigitVal(c) == CHOOSE d \in 0..9 : Digits[d + 1] = c

\* The decimal digits of a natural number, most significant first.
RECURSIVE NatChars(_)
NatChars(n) ==
    IF n < 10 THEN <<DigitChar(n)>>
    ELSE NatChars(n \div 10) \o <<DigitChar(n % 10)>>

\* The natural number a non-empty sequence of digits writes.
RECURSIVE CharsNat(_)
CharsNat(s) ==
    IF Len(s) = 0 THEN 0
    ELSE 10 * CharsNat(SubSeq(s, 1, Len(s) - 1)) + DigitVal(s[Len(s)])

Pow10(n) == 10 ^ n

Pow2(n) == 2 ^ n

Abs(n) == IF n < 0 THEN -n ELSE n

\* num/den (den > 0, num >= 0) rounded to the nearest integer, ties to even.
RoundHalfEven(num, den) ==
    LET q == num \div den
        r == num % den
    IN  IF 2 * r > den THEN q + 1
        ELSE IF 2 * r < den THEN q
        ELSE IF q % 2 = 0 THEN q ELSE q + 1

\* s with n copies of "0" put in front.
RECURSIVE ZeroPad(_, _)
ZeroPad(s, n) == IF n <= 0 THEN s ELSE ZeroPad(<<"0">> \o s, n - 1)

\* The index of the first c in s, 0 when there is none.
RECURSIVE IndexFrom(_, _, _)
IndexFrom(s, c, i) ==
    IF i > Len(s) THEN 0
    ELSE IF s[i] = c THEN i
    ELSE IndexFrom(s, c, i + 1)

IndexOf(s, c) == IndexFrom(s, c, 1)

----------------------------------------------------------------------------
(* rust_decimal::Decimal: an exact decimal, mantissa m scaled by 10^-e.    *)
(* Display writes the sign, the integer digits and, when e > 0, the point  *)
(* and exactly e fraction digits.                                          *)

Dec(m, e) == [m |-> m, e |-> e]

DecimalChars(d) ==
    LET a    == Abs(d.m)
        ip   == NatChars(a \div Pow10(d.e))
        fr   == NatChars(a % Pow10(d.e))
        frac == ZeroPad(fr, d.e - Len(fr))
        sign == IF d.m < 0 THEN <<"-">> ELSE <<>>
    IN  IF d.e = 0 THEN sign \o ip ELSE sign \o ip \o <<".">> \o frac

\* Decimal::from_str on text of the shape [-]digits[.digits].
IsDecimalText(s) ==
    LET body == IF Len(s) > 0 /\ s[1] = "-" THEN SubSeq(s, 2, Len(s)) ELSE s
        dot  == IndexOf(body, ".")
        ip   == IF dot = 0 THEN body ELSE SubSeq(body, 1, dot - 1)
        fr   == IF dot = 0 THEN <<>> ELSE SubSeq(body, dot + 1, Len(body))
    IN  /\ Len(ip) > 0
        /\ dot # 0 => Len(fr) > 0
        /\ \A i \in 1..Len(ip) : ip[i] \in DigitSet
        /\ \A i \in 1..Len(fr) : fr[i] \in DigitSet

DecimalFromText(s) ==
    LET neg  == Len(s) > 0 /\ s[1] = "-"
        body == IF neg THEN SubSeq(s, 2, Len(s)) ELSE s
        dot  == IndexOf(body, ".")
        ip   == IF dot = 0 THEN body ELSE SubSeq(body, 1, dot - 1)
        fr   == IF dot = 0 THEN <<>> ELSE SubSeq(body, dot + 1, Len(body))
        a    == CharsNat(ip \o fr)
    IN  Dec(IF neg THEN -a ELSE a, Len(fr))

----------------------------------------------------------------------------
(* f32: sig * 2^exp with 2^23 <= |sig| < 2^24, or zero.                    *)

MantissaBits == 24

F32(sig, exp) == [sig |-> sig, exp |-> exp]

F32Zero == F32(0, 0)

\* The binary exponents the model's numbers need.
MaxShift == 40

\* The least s >= 0 with p * 2^s >= 2^23 * q.
ScaleUp(p, q) ==
    CHOOSE s \in 0..MaxShift :
        /\ s > 0 => p * Pow2(s - 1) < Pow2(MantissaBits - 1) * q
        /\ p * Pow2(s) >= Pow2(MantissaBits - 1) * q

\* The least t >= 0 with p / 2^t < 2^24 * q.
ScaleDown(p, q) ==
    CHOOSE t \in 0..MaxShift :
        /\ t > 0 => p \div Pow2(t - 1) >= Pow2(MantissaBits) * q
        /\ p \div Pow2(t) < Pow2(MantissaBits) * q

\* The f32 nearest to p/q (p > 0, q > 0), ties to even.
NearestF32Pos(p, q) ==
    LET t == ScaleDown(p, q)
    IN  IF t > 0
        THEN LET M == RoundHalfEven(p, q * Pow2(t))
             IN  IF M = Pow2(MantissaBits)
                 THEN F32(M \div 2, t + 1) ELSE F32(M, t)
        ELSE LET s == ScaleUp(p, q)
                 M == RoundHalfEven(p * Pow2(s), q)
             IN  IF M = Pow2(MantissaBits)
                 THEN F32(M \div 2, 1 - s) ELSE F32(M, -s)

\* The f32 a JSON number literal m * 10^-e becomes.
ToF32(m, e) ==
    IF m = 0 THEN F32Zero
    ELSE LET v == NearestF32Pos(Abs(m), Pow10(e))
         IN  IF m < 0 THEN F32(-v.sig, v.exp) ELSE v

\* |x| * 10^d as a fraction <<num, den>>.
F32Scaled(x, d) ==
    IF x.exp >= 0 THEN <<Abs(x.sig) * Pow2(x.exp) * Pow10(d), 1>>
    ELSE <<Abs(x.sig) * Pow10(d), Pow2(-x.exp)>>

\* format!("{:.prec}", x): the sign, the integer digits and prec fraction
\* digits of x rounded to prec places, ties of the exact value to even.
FormatFixed(x, prec) ==
    LET fr     == F32Scaled(x, prec)
        scaled == RoundHalfEven(fr[1], fr[2])
        ip     == NatChars(scaled \div Pow10(prec))
        fd     == NatChars(scaled % Pow10(prec))
        frac   == ZeroPad(fd, prec - Len(fd))
        sign   == IF x.sig < 0 THEN <<"-">> ELSE <<>>
    IN  IF prec = 0 THEN sign \o ip ELSE sign \o ip \o <<".">> \o frac

\* The most fraction digits the shortest-literal search tries: every f32 of
\* the model comes from a literal with at most this many.
MaxFractionDigits == 2

\* serde_json writes an f32 as the shortest decimal literal that reads back
\* as the same f32 (ryu), with ".0" when it has no fraction digits.  The
\* result is <<m, e>>: the literal m * 10^-e of |x|.
RECURSIVE ShortestFrom(_, _)
ShortestFrom(x, d) ==
    LET fr   == F32Scaled(x, d)
        near == RoundHalfEven(fr[1], fr[2])
        lo   == fr[1] \div fr[2]
        far  == IF near = lo THEN lo + 1 ELSE lo
        ax   == F32(Abs(x.sig), x.exp)
    IN  IF ToF32(near, d) = ax THEN <<near, d>>
        ELSE IF ToF32(far, d) = ax THEN <<far, d>>
        ELSE IF d >= MaxFractionDigits THEN <<near, d>>
        ELSE ShortestFrom(x, d + 1)

F32Literal(x) ==
    LET sh == IF x.sig = 0 THEN <<0, 0>> ELSE ShortestFrom(x, 0)
        m  == IF sh[2] = 0 THEN 10 * sh[1] ELSE sh[1]
        e  == IF sh[2] = 0 THEN 1 ELSE sh[2]
    IN  <<IF x.sig < 0 THEN -m ELSE m, e>>

----------------------------------------------------------------------------
(* urlencoding::encode: every byte except the ASCII letters, digits and    *)
(* - _ . ~ becomes %XX, XX its code in upper-case hexadecimal.  The model  *)
(* covers printable ASCII.                                                 *)

Printable ==
    <<" ", "!", "U+0022", "#", "$", "%", "&", "'", "(", ")", "*", "+", ",", "-", ".", "/",
       "0", "1", "2", "3", "4", "5", "6", "7", "8", "9", ":", ";", "<", "=", ">", "?",
       "@", "A", "B", "C", "D", "E", "F", "G", "H", "I", "J", "K", "L", "M", "N", "O",
       "P", "Q", "R", "S", "T", "U", "V", "W", "X", "Y", "Z", "[", "U+005C", "]", "^", "_",
       "U+0060", "a", "b", "c", "d", "e", "f", "g", "h", "i", "j", "k", "l", "m", "n", "o",
       "p", "q", "r", "s", "t", "u", "v", "w", "x", "y", "z", "{", "|", "}", "~">>

\* The byte of a character: the first of Printable, the space, is 32.
CharCode(c) == 31 + IndexOf(Printable, c)

HexDigits ==
    <<"0", "1", "2", "3", "4", "5", "6", "7",
      "8", "9", "A", "B", "C", "D", "E", "F">>

IsAlnum(c) ==
    LET n == CharCode(c)
    IN  \/ n \in 48..57
        \/ n \in 65..90
        \/ n \in 97..122

IsUnreserved(c) == IsAlnum(c) \/ c \in {"-", "_", ".", "~"}

EncodeChar(c) ==
    IF IsUnreserved(c) THEN <<c>>
    ELSE <<"%", HexDigits[(CharCode(c) \div 16) + 1],
                HexDigits[(CharCode(c) % 16) + 1]>>

\* The key put into the URL as it is.
encode_nothing(s) == s

RECURSIVE encode(_)
encode(s) ==
    IF Len(s) = 0 THEN <<>>
    ELSE EncodeChar(s[1]) \o encode(Tail(s))

DARKSKY_FORECAST_URL ==
    <<"h", "t", "t", "p", "s", ":", "/", "/", "a", "p", "i", ".",
      "d", "a", "r", "k", "s", "k", "y", ".", "n", "e", "t", "/",
      "f", "o", "r", "e", "c", "a", "s", "t", "/">>

\* format!("{}{}/{},{}", DARKSKY_FORECAST_URL, encode(api_key), lat, lng)
RequestUrl(api_key, lat, lng) ==
    DARKSKY_FORECAST_URL \o encode(api_key) \o <<"/">>
        \o DecimalChars(lat) \o <<",">> \o DecimalChars(lng)

----------------------------------------------------------------------------
(* JSON values as serde_json reads and writes them                         *)

Null == [k |-> "null"]

Bool(b) == [k |-> "bool", b |-> b]

Num(m, e) == [k |-> "num", m |-> m, e |-> e]

Str(s) == [k |-> "str", s |-> s]

Arr(a) == [k |-> "arr", a |-> a]

Obj(o) == [k |-> "obj", o |-> o]

\* A response body that is not JSON text at all.
NotJson == [k |-> "garbage"]

----------------------------------------------------------------------------
(* The data model: the structs of lib.rs with their serde attributes.  A   *)
(* field is its Rust name, its wire name (after rename_all), its type,     *)
(* and whether it is wrapped in Option and in Vec.                         *)

Req(rust, wire, ty)    == [rust |-> rust, wire |-> wire, ty |-> ty, opt |-> FALSE, vec |-> FALSE]

Opt(rust, wire, ty)    == [rust |-> rust, wire |-> wire, ty |-> ty, opt |-> TRUE, vec |-> FALSE]

Vec(rust, wire, ty)    == [rust |-> rust, wire |-> wire, ty |-> ty, opt |-> FALSE, vec |-> TRUE]

OptVec(rust, wire, ty) == [rust |-> rust, wire |-> wire, ty |-> ty, opt |-> TRUE, vec |-> TRUE]

\* type UnixTime = u64; ... type Ozone = f32;
Alias(ty) ==
    CASE ty = "UnixTime"    -> "u64"
      [] ty = "Temperature" -> "f32"
      [] ty = "Bearing"     -> "u16"
      [] ty = "Speed"       -> "f32"
      [] ty = "UvIndex"     -> "u8"
      [] ty = "CloudCover"  -> "f32"
      [] ty = "Humidity"    -> "f32"
      [] ty = "Probability" -> "f32"
      [] ty = "Intensity"   -> "f32"
      [] ty = "MoonPhase"   -> "f32"
      [] ty = "Pressure"    -> "f32"
      [] ty = "Distance"    -> "f32"
      [] ty = "Ozone"       -> "f32"
      [] OTHER              -> ty

DarkskyResultFields ==
    << Req("latitude", "latitude", "Decimal"),
       Req("longitude", "longitude", "Decimal"),
       Req("timezone", "timezone", "String"),
       Req("currently", "currently", "Weather"),
       Opt("minutely", "minutely", "MinutelySeries"),
       Req("hourly", "hourly", "HourlySeries"),
       Req("daily", "daily", "DailySeries"),
       OptVec("alerts", "alerts", "Alerts"),
       Req("flags", "flags", "Flags"),
       Req("offset", "offset", "i8") >>

\* #[serde(rename_all = "camelCase")]
WeatherFields ==
    << Req("time", "time", "UnixTime"),
       Req("summary", "summary", "String"),
       Req("icon", "icon", "String"),
       Opt("nearest_storm_distance", "nearestStormDistance", "Distance"),
       Opt("nearest_storm_bearing", "nearestStormBearing", "Bearing"),
       Req("precip_intensity", "precipIntensity", "Intensity"),
       Req("precip_probability", "precipProbability", "Probability"),
       Opt("precip_type", "precipType", "String"),
       Req("temperature", "temperature", "Temperature"),
       Req("apparent_temperature", "apparentTemperature", "Temperature"),
       Req("dew_point", "dewPoint", "Temperature"),
       Req("humidity", "humidity", "Humidity"),
       Req("pressure", "pressure", "Pressure"),
       Req("wind_speed", "windSpeed", "Speed"),
       Req("wind_gust", "windGust", "Speed"),
       Req("wind_bearing", "windBearing", "Bearing"),
       Req("cloud_cover", "cloudCover", "CloudCover"),
       Req("uv_index", "uvIndex", "UvIndex"),
       Req("visibility", "visibility", "Distance"),
       Req("ozone", "ozone", "Ozone") >>

MinutelySeriesFields ==
    << Req("summary", "summary", "String"),
       Req("icon", "icon", "String"),
       Vec("data", "data", "Precipation") >>

\* #[serde(rename_all = "camelCase")]
PrecipationFields ==
    << Req("time", "time", "UnixTime"),
       Req("precip_intensity", "precipIntensity", "Intensity"),
       Req("precip_probability", "precipProbability", "Probability") >>

HourlySeriesFields ==
    << Req("summary", "summary", "String"),
       Req("icon", "icon", "String"),
       Vec("data", "data", "Weather") >>

DailySeriesFields ==
    << Req("summary", "summary", "String"),
       Req("icon", "icon", "String"),
       Vec("data", "data", "DailyWeather") >>

\* #[serde(rename_all = "camelCase")]
DailyWeatherFields ==
    << Req("time", "time", "UnixTime"),
       Req("summary", "summary", "String"),
       Req("icon", "icon", "String"),
       Req("sunrise_time", "sunriseTime", "UnixTime"),
       Req("sunset_time", "sunsetTime", "UnixTime"),
       Req("moon_phase", "moonPhase", "MoonPhase"),
       Req("precip_intensity", "precipIntensity", "Intensity"),
       Req("precip_intensity_max", "precipIntensityMax", "Intensity"),
       Opt("precip_intensity_max_time", "precipIntensityMaxTime", "UnixTime"),
       Req("precip_probability", "precipProbability", "Probability"),
       Opt("precip_type", "precipType", "String"),
       Req("temperature_high", "temperatureHigh", "Temperature"),
       Req("temperature_high_time", "temperatureHighTime", "UnixTime"),
       Req("temperature_low", "temperatureLow", "Temperature"),
       Req("temperature_low_time", "temperatureLowTime", "UnixTime"),
       Req("apparent_temperature_high", "apparentTemperatureHigh", "Temperature"),
       Req("apparent_temperature_high_time", "apparentTemperatureHighTime", "UnixTime"),
       Req("apparent_temperature_low", "apparentTemperatureLow", "Temperature"),
       Req("apparent_temperature_low_time", "apparentTemperatureLowTime", "UnixTime"),
       Req("dew_point", "dewPoint", "Temperature"),
       Req("humidity", "humidity", "Humidity"),
       Req("pressure", "pressure", "Pressure"),
       Req("wind_speed", "windSpeed", "Speed"),
       Req("wind_gust", "windGust", "Speed"),
       Req("wind_gust_time", "windGustTime", "UnixTime"),
       Req("wind_bearing", "windBearing", "Bearing"),
       Req("cloud_cover", "cloudCover", "CloudCover"),
       Req("uv_index", "uvIndex", "UvIndex"),
       Req("uv_index_time", "uvIndexTime", "UnixTime"),
       Req("visibility", "visibility", "Distance"),
       Req("ozone", "ozone", "Ozone") >>

AlertsFields ==
    << Req("title", "title", "String"),
       Req("time", "time", "UnixTime"),
       Req("expires", "expires", "UnixTime"),
       Req("description", "description", "String"),
       Req("uri", "uri", "String") >>

\* #[serde(rename_all = "kebab-case")]
FlagsFields ==
    << Vec("sources", "sources", "String"),
       Req("nearest_station", "nearest-station", "Distance"),
       Req("units", "units", "String") >>

StructNames ==
    {"DarkskyResult", "Weather", "MinutelySeries", "Precipation", "HourlySeries",
     "DailySeries", "DailyWeather", "Alerts", "Flags"}

Fields(struct) ==
    CASE struct = "DarkskyResult"  -> DarkskyResultFields
      [] struct = "Weather"        -> WeatherFields
      [] struct = "MinutelySeries" -> MinutelySeriesFields
      [] struct = "Precipation"    -> PrecipationFields
      [] struct = "HourlySeries"   -> HourlySeriesFields
      [] struct = "DailySeries"    -> DailySeriesFields
      [] struct = "DailyWeather"   -> DailyWeatherFields
      [] struct = "Alerts"         -> AlertsFields
      [] struct = "Flags"          -> FlagsFields

FieldByRust(struct, rust) ==
    LET fs == Fields(struct)
    IN  fs[CHOOSE i \in 1..Len(fs) : fs[i].rust = rust]

FieldByWire(struct, wire) ==
    LET fs == Fields(struct)
    IN  fs[CHOOSE i \in 1..Len(fs) : fs[i].wire = wire]

RustNames(struct) == {Fields(struct)[i].rust : i \in 1..Len(Fields(struct))}

WireNames(struct) == {Fields(struct)[i].wire : i \in 1..Len(Fields(struct))}

----------------------------------------------------------------------------
(* #[derive(Deserialize)]: a JSON value read as a Rust type                *)

U8Max == 255

U16Max == 65535

I8Min == -128

I8Max == 127

Ok(x) == [ok |-> TRUE, val |-> x]

Err == [ok |-> FALSE]

None == [some |-> FALSE]

Some(x) == [some |-> TRUE, val |-> x]

\* A Decimal read from a JSON number: an integer literal as it is, a literal
\* with a fraction through f64 and its shortest text, which drops the
\* fraction's trailing zeros.
RECURSIVE StripZeros(_)
StripZeros(d) ==
    IF d.e > 0 /\ d.m % 10 = 0 THEN StripZeros(Dec(d.m \div 10, d.e - 1)) ELSE d

DeserializePrimitive(p, v) ==
    CASE p = "u64" ->
            IF v.k = "num" /\ v.e = 0 /\ v.m >= 0 THEN Ok(v.m) ELSE Err
      [] p = "u16" ->
            IF v.k = "num" /\ v.e = 0 /\ v.m >= 0 /\ v.m <= U16Max THEN Ok(v.m) ELSE Err
      [] p = "u8" ->
            IF v.k = "num" /\ v.e = 0 /\ v.m >= 0 /\ v.m <= U8Max THEN Ok(v.m) ELSE Err
      [] p = "i8" ->
            IF v.k = "num" /\ v.e = 0 /\ v.m >= I8Min /\ v.m <= I8Max THEN Ok(v.m) ELSE Err
      [] p = "f32" ->
            IF v.k = "num" THEN Ok(ToF32(v.m, v.e)) ELSE Err
      [] p = "String" ->
            IF v.k = "str" THEN Ok(v.s) ELSE Err
      [] p = "Decimal" ->
            IF v.k = "num" THEN Ok(StripZeros(Dec(v.m, v.e)))
            ELSE IF v.k = "str" /\ IsDecimalText(v.s) THEN Ok(DecimalFromText(v.s))
            ELSE Err

RECURSIVE DeserializeType(_, _)
RECURSIVE DeserializeElements(_, _, _)
RECURSIVE DeserializeValue(_, _)
RECURSIVE DeserializeFields(_, _, _, _)
RECURSIVE DeserializeStruct(_, _)

DeserializeType(ty, v) ==
    IF ty \in StructNames THEN DeserializeStruct(ty, v)
    ELSE DeserializePrimitive(Alias(ty), v)

\* The elements of the array a from the i-th on: the first error ends it.
DeserializeElements(ty, a, i) ==
    IF i > Len(a) THEN Ok(<<>>)
    ELSE LET head == DeserializeType(ty, a[i])
         IN  IF ~head.ok THEN Err
             ELSE LET rest == DeserializeElements(ty, a, i + 1)
                  IN  IF rest.ok THEN Ok(<<head.val>> \o rest.val) ELSE Err

DeserializeVec(ty, v) ==
    IF v.k # "arr" THEN Err ELSE DeserializeElements(ty, v.a, 1)

\* The value v read as the type of the field f: null is None for an Option
\* and an error for anything else.
DeserializeValue(f, v) ==
    IF f.opt /\ v.k = "null" THEN Ok(None)
    ELSE LET inner == IF f.vec THEN DeserializeVec(f.ty, v)
                      ELSE DeserializeType(f.ty, v)
         IN  IF ~inner.ok THEN Err
             ELSE IF f.opt THEN Ok(Some(inner.val)) ELSE inner

\* Every key the object does not have taken as an error.
missing_field_always(f) == Err

\* A key the object does not have: None for an Option, an error
\* ("missing field") for anything else.
missing_field(f) == IF f.opt THEN Ok(None) ELSE Err

\* What a struct's field is read from: the value under its key (in an
\* array, at its place), or nothing when the object has no such key.
Absent == [there |-> FALSE]

Present(v) == [there |-> TRUE, v |-> v]

\* visit_map: the members of the object o for the fields fs, by their keys;
\* keys the struct does not name are ignored (no deny_unknown_fields).
ObjectSlots(fs, o) ==
    [i \in 1..Len(fs) |->
        IF fs[i].wire \in DOMAIN o THEN Present(o[fs[i].wire]) ELSE Absent]

\* visit_seq: the derived visitor also reads a struct from an array, whose
\* elements are the fields' values in the order of declaration.
ArraySlots(fs, a) == [i \in 1..Len(fs) |-> Present(a[i])]

\* A field of a struct read from its slot.
DeserializeField(f, slot) ==
    IF ~slot.there THEN missing_field(f) ELSE DeserializeValue(f, slot.v)

\* The fields fs[lo..hi] read from their slots into the struct's value
\* (Rust name to value): an error in any field is the error of the whole.
DeserializeFields(fs, slots, lo, hi) ==
    IF lo > hi THEN Ok(<<>>)
    ELSE IF lo = hi
    THEN LET one == DeserializeField(fs[lo], slots[lo])
         IN  IF one.ok THEN Ok(fs[lo].rust :> one.val) ELSE Err
    ELSE LET mid   == (lo + hi) \div 2
             left  == DeserializeFields(fs, slots, lo, mid)
         IN  IF ~left.ok THEN Err
             ELSE LET right == DeserializeFields(fs, slots, mid + 1, hi)
                  IN  IF right.ok THEN Ok(left.val @@ right.val) ELSE Err

\* A struct is read from an object, or from an array that has one element
\* for each field (fewer: "invalid length"; more: "trailing characters");
\* any other value is an error.
DeserializeStruct(struct, v) ==
    LET fs == Fields(struct)
    IN  IF v.k \notin {"obj", "arr"} THEN Err
        ELSE IF v.k = "arr" /\ Len(v.a) # Len(fs) THEN Err
        ELSE DeserializeFields(fs,
                               IF v.k = "obj" THEN ObjectSlots(fs, v.o)
                               ELSE ArraySlots(fs, v.a),
                               1, Len(fs))

\* serde_json::from_str::<DarkskyResult>(&response_body)
from_str(body) ==
    IF body.k = "garbage" THEN Err ELSE DeserializeStruct("DarkskyResult", body)

----------------------------------------------------------------------------
(* #[derive(Serialize)]: every field is written under its wire name; an    *)
(* Option that is None is written as null (no skip_serializing_if).        *)

SerializePrimitive(p, x) ==
    CASE p \in {"u64", "u16", "u8", "i8"} -> Num(x, 0)
      [] p = "f32"     -> LET lit == F32Literal(x) IN Num(lit[1], lit[2])
      [] p = "String"  -> Str(x)
      [] p = "Decimal" -> Str(DecimalChars(x))

RECURSIVE SerializeType(_, _)
RECURSIVE SerializeElements(_, _, _)
RECURSIVE SerializeField(_, _)
RECURSIVE SerializeFields(_, _, _, _)
RECURSIVE SerializeStruct(_, _)

SerializeType(ty, x) ==
    IF ty \in StructNames THEN SerializeStruct(ty, x)
    ELSE SerializePrimitive(Alias(ty), x)

\* None written as a number.
SerializeNoneAsZero == Num(0, 0)

SerializeNone == Null

SerializeElements(ty, xs, i) ==
    IF i > Len(xs) THEN <<>>
    ELSE <<SerializeType(ty, xs[i])>> \o SerializeElements(ty, xs, i + 1)

SerializeField(f, x) ==
    IF f.opt /\ ~x.some THEN SerializeNone
    ELSE LET y == IF f.opt THEN x.val ELSE x
         IN  IF f.vec THEN Arr(SerializeElements(f.ty, y, 1))
             ELSE SerializeType(f.ty, y)

\* The members for the fields fs[lo..hi]: wire name to value.
SerializeFields(fs, x, lo, hi) ==
    IF lo > hi THEN <<>>
    ELSE IF lo = hi THEN fs[lo].wire :> SerializeField(fs[lo], x[fs[lo].rust])
    ELSE LET mid == (lo + hi) \div 2
         IN  SerializeFields(fs, x, lo, mid) @@ SerializeFields(fs, x, mid + 1, hi)

SerializeStruct(struct, x) ==
    Obj(SerializeFields(Fields(struct), x, 1, Len(Fields(struct))))

----------------------------------------------------------------------------
(* Response bodies: two well-formed documents, one with every optional     *)
(* field and one with none, and the documents one change away from them.   *)

\* The number of elements of every data array and of alerts.
MaxData == 1

Omit(o, key) == [x \in (DOMAIN o) \ {key} |-> o[x]]

Put(o, key, v) == (key :> v) @@ o

EmptyObject == <<>>

\* The time of the samples: n hours after the first, in seconds since the epoch.
HourAfter(n) == 1509990000 + 3600 * n

WeatherJson(full, i) ==
    LET req ==
            ("time" :> Num(HourAfter(i), 0))
         @@ ("summary" :> Str(<<"F", "o", "g", "g", "y">>))
         @@ ("icon" :> Str(<<"f", "o", "g">>))
         @@ ("precipIntensity" :> Num(5, 2))
         @@ ("precipProbability" :> Num(25, 2))
         @@ ("temperature" :> Num(612, 1))
         @@ ("apparentTemperature" :> Num(6075, 2))
         @@ ("dewPoint" :> Num(-5, 1))
         @@ ("humidity" :> Num(83, 2))
         @@ ("pressure" :> Num(101637, 2))
         @@ ("windSpeed" :> Num(517, 2))
         @@ ("windGust" :> Num(12, 0))
         @@ ("windBearing" :> Num(246, 0))
         @@ ("cloudCover" :> Num(7, 1))
         @@ ("uvIndex" :> Num(1, 0))
         @@ ("visibility" :> Num(10, 0))
         @@ ("ozone" :> Num(32113, 2))
        opt ==
            ("nearestStormDistance" :> Num(12, 0))
         @@ ("nearestStormBearing" :> Num(3, 0))
         @@ ("precipType" :> Str(<<"r", "a", "i", "n">>))
    IN  Obj(IF full THEN req @@ opt ELSE req)

PrecipationJson(i) ==
    Obj(   ("time" :> Num(HourAfter(0) + 60 * i, 0))
        @@ ("precipIntensity" :> Num(0, 0))
        @@ ("precipProbability" :> Num(5, 1)))

DailyWeatherJson(full, i) ==
    LET req ==
            ("time" :> Num(HourAfter(24 * i), 0))
         @@ ("summary" :> Str(<<"R", "a", "i", "n">>))
         @@ ("icon" :> Str(<<"r", "a", "i", "n">>))
         @@ ("sunriseTime" :> Num(HourAfter(24 * i + 6), 0))
         @@ ("sunsetTime" :> Num(HourAfter(24 * i + 18), 0))
         @@ ("moonPhase" :> Num(59, 2))
         @@ ("precipIntensity" :> Num(1, 2))
         @@ ("precipIntensityMax" :> Num(15, 2))
         @@ ("precipProbability" :> Num(1, 0))
         @@ ("temperatureHigh" :> Num(6635, 2))
         @@ ("temperatureHighTime" :> Num(HourAfter(24 * i + 14), 0))
         @@ ("temperatureLow" :> Num(4159, 2))
         @@ ("temperatureLowTime" :> Num(HourAfter(24 * i + 30), 0))
         @@ ("apparentTemperatureHigh" :> Num(66, 0))
         @@ ("apparentTemperatureHighTime" :> Num(HourAfter(24 * i + 14), 0))
         @@ ("apparentTemperatureLow" :> Num(-35, 1))
         @@ ("apparentTemperatureLowTime" :> Num(HourAfter(24 * i + 30), 0))
         @@ ("dewPoint" :> Num(5766, 2))
         @@ ("humidity" :> Num(1, 0))
         @@ ("pressure" :> Num(102041, 2))
         @@ ("windSpeed" :> Num(477, 2))
         @@ ("windGust" :> Num(1956, 2))
         @@ ("windGustTime" :> Num(HourAfter(24 * i + 2), 0))
         @@ ("windBearing" :> Num(0, 0))
         @@ ("cloudCover" :> Num(99, 2))
         @@ ("uvIndex" :> Num(11, 0))
         @@ ("uvIndexTime" :> Num(HourAfter(24 * i + 12), 0))
         @@ ("visibility" :> Num(45, 1))
         @@ ("ozone" :> Num(26906, 2))
        opt ==
            ("precipIntensityMaxTime" :> Num(HourAfter(24 * i + 9), 0))
         @@ ("precipType" :> Str(<<"r", "a", "i", "n">>))
    IN  Obj(IF full THEN req @@ opt ELSE req)

AlertsJson(i) ==
    Obj(   ("title" :> Str(<<"F", "l", "o", "o", "d", " ", "W", "a", "t", "c", "h">>))
        @@ ("time" :> Num(HourAfter(0), 0))
        @@ ("expires" :> Num(HourAfter(i), 0))
        @@ ("description" :> Str(<<".", ".", ".">>))
        @@ ("uri" :> Str(<<"h", "t", "t", "p", "s", ":", "/", "/", "a", "l", "e", "r", "t", "s", ".", "w", "e", "a", "t", "h", "e", "r", ".", "g", "o", "v", "/", "1">>)))

RECURSIVE WeatherArray(_, _)
WeatherArray(full, n) ==
    IF n = 0 THEN <<>> ELSE Append(WeatherArray(full, n - 1), WeatherJson(full, n))

RECURSIVE DailyWeatherArray(_, _)
DailyWeatherArray(full, n) ==
    IF n = 0 THEN <<>>
    ELSE Append(DailyWeatherArray(full, n - 1), DailyWeatherJson(full, n))

RECURSIVE PrecipationArray(_)
PrecipationArray(n) ==
    IF n = 0 THEN <<>> ELSE Append(PrecipationArray(n - 1), PrecipationJson(n))

RECURSIVE AlertsArray(_)
AlertsArray(n) ==
    IF n = 0 THEN <<>> ELSE Append(AlertsArray(n - 1), AlertsJson(n))

Series(summary, icon, data) ==
    Obj(("summary" :> Str(summary)) @@ ("icon" :> Str(icon)) @@ ("data" :> Arr(data)))

FlagsJson ==
    Obj(   ("sources" :> Arr(<<Str(<<"n", "w", "s", "p", "a">>), Str(<<"i", "s", "d">>)>>))
        @@ ("nearest-station" :> Num(184, 2))
        @@ ("units" :> Str(<<"u", "s">>)))

\* The document for latitude 37.8267, longitude -122.4233.
Document(full) ==
    LET req ==
            ("latitude" :> Num(378267, 4))
         @@ ("longitude" :> Num(-1224233, 4))
         @@ ("timezone" :> Str(<<"A", "m", "e", "r", "i", "c", "a", "/", "L", "o", "s", "_", "A", "n", "g", "e", "l", "e", "s">>))
         @@ ("currently" :> WeatherJson(full, 0))
         @@ ("hourly" :> Series(<<"F", "o", "g", "g", "y", ".">>, <<"f", "o", "g">>,
                                WeatherArray(full, MaxData)))
         @@ ("daily" :> Series(<<"R", "a", "i", "n", ".">>, <<"r", "a", "i", "n">>,
                               DailyWeatherArray(full, MaxData)))
         @@ ("flags" :> FlagsJson)
         @@ ("offset" :> Num(-8, 0))
        opt ==
            ("minutely" :> Series(<<"D", "r", "y", ".">>, <<"c", "l", "e", "a", "r", "-", "d", "a", "y">>,
                                  PrecipationArray(MaxData)))
         @@ ("alerts" :> Arr(AlertsArray(MaxData)))
    IN  Obj(IF full THEN req @@ opt ELSE req)

FullBody == Document(TRUE)

MinimalBody == Document(FALSE)

BaseBody(full) == IF full THEN FullBody ELSE MinimalBody

\* A step into a document: the member of an object, or the element of an array.
Key(k) == [key |-> k]

Idx(i) == [idx |-> i]

IsKey(step) == "key" \in DOMAIN step

\* Whether the path leads to a value of the document.
RECURSIVE Reaches(_, _)
Reaches(v, path) ==
    IF Len(path) = 0 THEN TRUE
    ELSE LET step == Head(path)
         IN  IF IsKey(step)
             THEN /\ v.k = "obj"
                  /\ step.key \in DOMAIN v.o
                  /\ Reaches(v.o[step.key], Tail(path))
             ELSE /\ v.k = "arr"
                  /\ step.idx \in 1..Len(v.a)
                  /\ Reaches(v.a[step.idx], Tail(path))

RECURSIVE At(_, _)
At(v, path) ==
    IF Len(path) = 0 THEN v
    ELSE LET step == Head(path)
         IN  IF IsKey(step) THEN At(v.o[step.key], Tail(path))
             ELSE At(v.a[step.idx], Tail(path))

\* The document with the value at the path replaced by w.
RECURSIVE Replace(_, _, _)
Replace(v, path, w) ==
    IF Len(path) = 0 THEN w
    ELSE LET step == Head(path)
         IN  IF IsKey(step)
             THEN Obj(Put(v.o, step.key, Replace(v.o[step.key], Tail(path), w)))
             ELSE Arr([v.a EXCEPT ![step.idx] = Replace(v.a[step.idx], Tail(path), w)])

\* The objects of a document: the struct each is read as, and the way to it.
Place(struct, path) == [struct |-> struct, path |-> path]

ElementPlaces(struct, path) ==
    [i \in 1..MaxData |-> Place(struct, path \o <<Idx(i)>>)]

Places ==
    << Place("DarkskyResult", <<>>),
       Place("Weather", <<Key("currently")>>),
       Place("MinutelySeries", <<Key("minutely")>>),
       Place("HourlySeries", <<Key("hourly")>>),
       Place("DailySeries", <<Key("daily")>>),
       Place("Flags", <<Key("flags")>>) >>
    \o ElementPlaces("Precipation", <<Key("minutely"), Key("data")>>)
    \o ElementPlaces("Weather", <<Key("hourly"), Key("data")>>)
    \o ElementPlaces("DailyWeather", <<Key("daily"), Key("data")>>)
    \o ElementPlaces("Alerts", <<Key("alerts")>>)

\* The flags written as an array of the fields' values, in their order.
FlagsArray ==
    Arr(<<Arr(<<Str(<<"i", "s", "d">>)>>), Num(184, 2), Str(<<"u", "s">>)>>)

\* The values a changed member is given: of every JSON kind, and numbers
\* past the range of each integer type and past the precision of f32.
Probes ==
    << Null, Bool(TRUE), Str(<<"x">>), Str(<<"1", ".", "5">>), Num(7, 0), Num(75, 1), Num(-1, 0),
       Num(300, 0), Num(70000, 0), Num(16777217, 0), Arr(<<>>), Obj(EmptyObject),
       FlagsArray >>

\* The document with one member of one object removed (probe 0) or given
\* a probe value.
Changed(body, place, wire, probe) ==
    LET o == At(body, place.path).o
    IN  Replace(body, place.path,
                Obj(IF probe = 0 THEN Omit(o, wire) ELSE Put(o, wire, Probes[probe])))

----------------------------------------------------------------------------
(* The summary of current conditions                                       *)

\* Names matched by how they begin.
get_weather_icon_by_prefix(iconstr) ==
    IF Len(iconstr) >= 5 /\ SubSeq(iconstr, 1, 5) = <<"c", "l", "e", "a", "r">>
    THEN <<"U+2600", "U+FE0F">> ELSE <<>>

get_weather_icon(iconstr) ==
    CASE iconstr = <<"c", "l", "e", "a", "r", "-", "d", "a", "y">>           -> <<"U+2600", "U+FE0F">>
      [] iconstr = <<"c", "l", "e", "a", "r", "-", "n", "i", "g", "h", "t">>         -> <<"U+1F319">>
      [] iconstr = <<"r", "a", "i", "n">>                -> <<"U+1F327">>
      [] iconstr = <<"s", "n", "o", "w">>                -> <<"U+1F328">>
      [] iconstr = <<"s", "l", "e", "e", "t">>               -> <<"U+1F328">>
      [] iconstr = <<"w", "i", "n", "d">>                -> <<"U+1F4A8">>
      [] iconstr = <<"f", "o", "g">>                 -> <<"U+1F32B">>
      [] iconstr = <<"c", "l", "o", "u", "d", "y">>              -> <<"U+2601", "U+FE0F">>
      [] iconstr = <<"p", "a", "r", "t", "l", "y", "-", "c", "l", "o", "u", "d", "y", "-", "d", "a", "y">>   -> <<"U+26C5", "U+FE0F">>
      [] iconstr = <<"p", "a", "r", "t", "l", "y", "-", "c", "l", "o", "u", "d", "y", "-", "n", "i", "g", "h", "t">> -> <<"U+1F319">>
      [] iconstr = <<"h", "a", "i", "l">>                -> <<"U+1F327">>
      [] iconstr = <<"t", "h", "u", "n", "d", "e", "r", "s", "t", "o", "r", "m">>        -> <<"U+26C8">>
      [] iconstr = <<"t", "o", "r", "n", "a", "d", "o">>             -> <<"U+1F32A">>
      [] OTHER                           -> <<>>

\* The units compared without regard to case or trailing space.
get_unit_lenient(self) ==
    IF self.flags.units \in {<<"u", "s">>, <<"U", "S">>, <<"u", "s", " ">>} THEN <<"F">> ELSE <<"C">>

get_unit(self) ==
    IF self.flags.units = <<"u", "s">> THEN <<"F">> ELSE <<"C">>

\* The precision of "{:.1}".
TemperaturePrecision == 1

\* The parts that are not empty joined by single spaces.
get_current_weather_str_joined(self) ==
    LET icon == get_weather_icon(self.currently.icon)
    IN  FormatFixed(self.currently.temperature, TemperaturePrecision)
            \o <<"U+00B0">> \o get_unit(self)
            \o (IF icon = <<>> THEN <<>> ELSE <<" ">> \o icon)
            \o <<" ">> \o self.currently.summary

\* format!("{:.1}°{} {} {}", temperature, get_unit(), get_weather_icon(icon), summary)
get_current_weather_str(self) ==
    FormatFixed(self.currently.temperature, TemperaturePrecision)
        \o <<"U+00B0">> \o get_unit(self)
        \o <<" ">> \o get_weather_icon(self.currently.icon)
        \o <<" ">> \o self.currently.summary

\* write!(f, "{}", self.get_current_weather_str())
fmt(self) == get_current_weather_str(self)

----------------------------------------------------------------------------
(* The caller's inputs                                                     *)

ApiKeys ==
    << <<"a", "b", "c", " ", "1", "2", "3">>, <<"0", "1", "2", "3", "4", "5", "6", "7", "8", "9", "a", "b", "c", "d", "e", "f">>, <<>>, <<"A", "-", "_", ".", "~", "z">>, <<"k", "/", "?", "&", "=">>, <<"%", "2", "0", "+">> >>

\* <<latitude, longitude>>
Coordinates ==
    << <<Dec(105, 1), Dec(-2025, 2)>>,
       <<Dec(378267, 4), Dec(-1224233, 4)>>,
       <<Dec(0, 0), Dec(-180, 0)>>,
       <<Dec(-5, 1), Dec(5, 2)>>,
       <<Dec(1050, 2), Dec(-7, 3)>> >>

\* The bodies whose current conditions vary: temperature, icon, summary, units.
Temperatures ==
    << Num(7234, 2), Num(7235, 2), Num(612, 1), Num(25, 2), Num(75, 2), Num(-4, 2),
       Num(-995, 2), Num(0, 0), Num(-40, 0), Num(16777217, 0) >>

Icons ==
    << <<"c", "l", "e", "a", "r", "-", "d", "a", "y">>, <<"c", "l", "e", "a", "r", "-", "n", "i", "g", "h", "t">>, <<"r", "a", "i", "n">>, <<"s", "n", "o", "w">>, <<"s", "l", "e", "e", "t">>, <<"w", "i", "n", "d">>, <<"f", "o", "g">>,
       <<"c", "l", "o", "u", "d", "y">>, <<"p", "a", "r", "t", "l", "y", "-", "c", "l", "o", "u", "d", "y", "-", "d", "a", "y">>, <<"p", "a", "r", "t", "l", "y", "-", "c", "l", "o", "u", "d", "y", "-", "n", "i", "g", "h", "t">>, <<"h", "a", "i", "l">>,
       <<"t", "h", "u", "n", "d", "e", "r", "s", "t", "o", "r", "m">>, <<"t", "o", "r", "n", "a", "d", "o">>,
       <<>>, <<"b", "o", "g", "u", "s", "-", "i", "c", "o", "n">>, <<"R", "a", "i", "n">>, <<"r", "a", "i", "n", " ">>, <<"c", "l", "e", "a", "r">>, <<"p", "a", "r", "t", "l", "y", "-", "c", "l", "o", "u", "d", "y">> >>

Summaries == << <<"F", "o", "g", "g", "y">>, <<"L", "i", "g", "h", "t", " ", "r", "a", "i", "n", ",", " ", "5", " ", "U+00B0", "C", " ">> >>

Units == << <<"u", "s">>, <<"u", "k", "2">>, <<"s", "i">>, <<"c", "a">>, <<>>, <<"U", "S">>, <<"u", "s", " ">> >>

CurrentBody(t, i, s, u) ==
    LET base      == BaseBody(FALSE)
        currently == base.o.currently.o
        flags     == base.o.flags.o
    IN  Obj(Put(Put(base.o,
                    "currently",
                    Obj(Put(Put(Put(currently, "temperature", Temperatures[t]),
                                "icon", Str(Icons[i])),
                            "summary", Str(Summaries[s])))),
                "flags", Obj(Put(flags, "units", Str(Units[u])))))

----------------------------------------------------------------------------
(* The state machine.  pc is the place of DarkskyResult::new:              *)
(*   "idle"  not called, "get"  awaiting reqwest::get, "text"  awaiting    *)
(*   response.text(), "done"  returned.                                    *)

\* The number of calls of DarkskyResult::new.
MaxCalls == 2

NoArgs == [api_key |-> <<>>, lat |-> Dec(0, 0), lng |-> Dec(0, 0)]

NoBody == [k |-> "none"]

NoResult == [tag |-> "none"]

NoOut == [op |-> "none"]

ResultOk(x) == [tag |-> "ok", val |-> x]

ResultErr(e) == [tag |-> "err", err |-> e]

Init ==
    /\ pc = "idle"
    /\ calls = 0
    /\ requests = <<>>
    /\ args = NoArgs
    /\ response_body = NoBody
    /\ result = NoResult
    /\ out = NoOut

\* DarkskyResult::new up to the first await: the URL is built and the GET
\* sent.  requests are the GETs of the call under way, by their URLs.
Send(api_key, lat, lng) ==
    /\ pc \in {"idle", "done"}
    /\ calls' = calls + 1
    /\ args' = [api_key |-> api_key, lat |-> lat, lng |-> lng]
    /\ requests' = <<RequestUrl(api_key, lat, lng)>>
    /\ pc' = "get"
    /\ response_body' = NoBody
    /\ result' = NoResult
    /\ out' = NoOut

\* The caller calls DarkskyResult::new, at most limit times in all.
Call(keys, coords, limit) ==
    /\ pc \in {"idle", "done"}
    /\ calls < limit
    /\ \E a \in keys, c \in coords :
          Send(ApiKeys[a], Coordinates[c][1], Coordinates[c][2])

\* A failed GET that is sent once more instead of being returned.
GetFailsRetry ==
    /\ pc = "get"
    /\ Len(requests) < 2
    /\ requests' = Append(requests, requests[1])
    /\ UNCHANGED <<pc, calls, args, response_body, result, out>>

\* reqwest::get(request_url).await? with an error: it is returned.
GetFails ==
    /\ pc = "get"
    /\ pc' = "done"
    /\ result' = ResultErr("reqwest::Error")
    /\ UNCHANGED <<calls, requests, args, response_body, out>>

\* reqwest::get(request_url).await? with a response.
GetResponds ==
    /\ pc = "get"
    /\ pc' = "text"
    /\ UNCHANGED <<calls, requests, args, response_body, result, out>>

\* response.text().await? with an error: it is returned.
TextFails ==
    /\ pc = "text"
    /\ pc' = "done"
    /\ result' = ResultErr("reqwest::Error")
    /\ UNCHANGED <<calls, requests, args, response_body, out>>

\* A body that does not parse answered with a stock forecast instead of the error.
ReturnedWithFallback(body) ==
    LET parsed == from_str(body)
    IN  IF parsed.ok THEN ResultOk(parsed.val) ELSE ResultOk(from_str(MinimalBody).val)

\* What DarkskyResult::new returns for a body that was read.
Returned(body) ==
    LET parsed == from_str(body)
    IN  IF parsed.ok THEN ResultOk(parsed.val) ELSE ResultErr("serde_json::Error")

\* response.text().await? with the body, then
\* Ok(serde_json::from_str::<DarkskyResult>(&response_body)?)
Receive(body) ==
    /\ pc = "text"
    /\ pc' = "done"
    /\ response_body' = body
    /\ result' = Returned(body)
    /\ UNCHANGED <<calls, requests, args, out>>

\* The server answers with no JSON, with the document that has no optional
\* field, or with the full document with one member of one object changed
\* ("extra" is a key no struct names).
ReceiveChanged ==
    /\ pc = "text"
    /\ \/ Receive(NotJson)
       \/ Receive(MinimalBody)
       \/ \E p \in 1..Len(Places), probe \in 0..Len(Probes) :
            \E wire \in WireNames(Places[p].struct) \cup {"extra"} :
                Receive(Changed(FullBody, Places[p], wire, probe))

\* The server answers with no JSON, with a well-formed document, or with
\* one that lacks a required member.
ReceiveBase ==
    /\ pc = "text"
    /\ \/ Receive(NotJson)
       \/ \E full \in BOOLEAN : Receive(BaseBody(full))
       \/ Receive(Changed(FullBody, Places[1], "currently", 0))

ReceiveCurrent ==
    /\ pc = "text"
    /\ \E t \in 1..Len(Temperatures), i \in 1..Len(Icons),
          s \in 1..Len(Summaries), u \in 1..Len(Units) :
            Receive(CurrentBody(t, i, s, u))

\* A summary that keeps its text in the DarkskyResult.
SummaryKept ==
    /\ pc = "done"
    /\ result.tag = "ok"
    /\ out' = [op |-> "get_current_weather_str",
               text |-> get_current_weather_str(result.val)]
    /\ result' = [result EXCEPT !.val.currently.summary = out'.text]
    /\ UNCHANGED <<pc, calls, requests, args, response_body>>

\* The caller asks a returned DarkskyResult for its summary (&self).
Summary ==
    /\ pc = "done"
    /\ result.tag = "ok"
    /\ out' = [op |-> "get_current_weather_str",
               text |-> get_current_weather_str(result.val)]
    /\ UNCHANGED <<pc, calls, requests, args, response_body, result>>

\* The caller formats a returned DarkskyResult with {} (&self).
Display ==
    /\ pc = "done"
    /\ result.tag = "ok"
    /\ out' = [op |-> "fmt", text |-> fmt(result.val)]
    /\ UNCHANGED <<pc, calls, requests, args, response_body, result>>

\* The caller serializes a returned DarkskyResult to JSON (&self).
Serialize ==
    /\ pc = "done"
    /\ result.tag = "ok"
    /\ out' = [op |-> "serialize", doc |-> SerializeStruct("DarkskyResult", result.val)]
    /\ UNCHANGED <<pc, calls, requests, args, response_body, result>>

\* Calls for every key and place, answered with a few documents.
Next ==
    \/ Call(1..Len(ApiKeys), 1..Len(Coordinates), MaxCalls)
    \/ GetFails
    \/ GetResponds
    \/ TextFails
    \/ ReceiveBase
    \/ Summary
    \/ Display
    \/ Serialize

Spec == Init /\ [][Next]_vars

\* One call, answered with every changed document; the result is serialized.
NextParse ==
    \/ Call(1..1, 1..1, 1)
    \/ GetFails
    \/ GetResponds
    \/ TextFails
    \/ ReceiveChanged
    \/ Serialize

SpecParse == Init /\ [][NextParse]_vars

\* One call, answered with every document of current conditions; the result
\* is summarized.
NextSummary ==
    \/ Call(1..1, 1..1, 1)
    \/ GetFails
    \/ GetResponds
    \/ TextFails
    \/ ReceiveCurrent
    \/ Summary
    \/ Display

SpecSummary == Init /\ [][NextSummary]_vars

----------------------------------------------------------------------------
(* The request                                                             *)

\* C1: every call of DarkskyResult::new issues exactly one GET.  Before the
\* first call nothing was sent; from the moment a call has sent its request,
\* while it awaits the response and the body and after it has returned (with
\* a result, a transport error, a body-read error or a parse error), the
\* GETs of that call are exactly one, for the URL built from its arguments:
\* nothing is sent a second time.
C1_OneGetPerCall ==
    /\ pc = "idle" => requests = <<>> /\ calls = 0
    /\ pc # "idle" =>
          /\ calls >= 1
          /\ Len(requests) = 1
          /\ requests[1] = RequestUrl(args.api_key, args.lat, args.lng)

\* A second call has returned the error of a body that did not parse.
C1_Witness ==
    /\ pc = "done"
    /\ calls = MaxCalls
    /\ result = ResultErr("serde_json::Error")
    /\ Len(requests) = 1

\* Whether x, read as the struct, has a value for every field of the struct
\* and of the structs within it (an Option: None, or a value that has).
RECURSIVE Populated(_, _)
Populated(struct, x) ==
    /\ DOMAIN x = RustNames(struct)
    /\ \A i \in 1..Len(Fields(struct)) :
          LET f == Fields(struct)[i]
              y == x[f.rust]
          IN  IF f.ty \notin StructNames THEN TRUE
              ELSE IF f.opt /\ ~y.some THEN TRUE
              ELSE LET z == IF f.opt THEN y.val ELSE y
                   IN  IF f.vec THEN \A j \in 1..Len(z) : Populated(f.ty, z[j])
                       ELSE Populated(f.ty, z)

\* C2: every call of DarkskyResult::new ends in exactly one of two
\* outcomes.  Until it returns there is no result.  When it has returned,
\* the result is either Ok with a DarkskyResult that has every field, read
\* from the body received, or Err with one error and no value: the
\* transport's error when no body was read, the parser's error when the body
\* read does not parse.  A body that does not parse never gives Ok.
C2_OneOutcome ==
    /\ pc \in {"get", "text"} => result = NoResult
    /\ pc = "done" =>
          \/ /\ result.tag = "ok"
             /\ DOMAIN result = {"tag", "val"}
             /\ response_body # NoBody
             /\ from_str(response_body) = Ok(result.val)
             /\ Populated("DarkskyResult", result.val)
          \/ /\ result.tag = "err"
             /\ DOMAIN result = {"tag", "err"}
             /\ IF response_body = NoBody
                THEN result.err = "reqwest::Error"
                ELSE /\ result.err = "serde_json::Error"
                     /\ ~from_str(response_body).ok

\* A document without its required "currently" was read: the call returned
\* the parser's error.
C2_Witness ==
    /\ pc = "done"
    /\ response_body # NoBody
    /\ response_body.k = "obj"
    /\ "currently" \notin DOMAIN response_body.o
    /\ result.tag = "err"

\* The characters urlencoding::encode leaves as they are.
Unreserved ==
    {<<"A", "B", "C", "D", "E", "F", "G", "H", "I", "J", "K", "L", "M", "N", "O", "P", "Q", "R", "S", "T", "U", "V", "W", "X", "Y", "Z", "a", "b", "c", "d", "e", "f", "g", "h", "i", "j", "k", "l", "m", "n", "o", "p", "q", "r", "s", "t", "u", "v", "w", "x", "y", "z", "0", "1", "2", "3", "4", "5", "6", "7", "8", "9", "-", "_", ".", "~">>[i] :
        i \in 1..66}

UpperHex == <<"0", "1", "2", "3", "4", "5", "6", "7", "8", "9", "A", "B", "C", "D", "E", "F">>

\* The text of which s is the percent-encoding ("?" where s is malformed).
RECURSIVE PercentDecode(_)
PercentDecode(s) ==
    IF Len(s) = 0 THEN <<>>
    ELSE IF Head(s) # "%" THEN <<Head(s)>> \o PercentDecode(Tail(s))
    ELSE IF Len(s) < 3 \/ IndexOf(UpperHex, s[2]) = 0 \/ IndexOf(UpperHex, s[3]) = 0
    THEN <<"?">>
    ELSE LET code == 16 * (IndexOf(UpperHex, s[2]) - 1) + IndexOf(UpperHex, s[3]) - 1
         IN  (IF code \in 32..126 THEN <<Printable[code - 31]>> ELSE <<"?">>)
                 \o PercentDecode(SubSeq(s, 4, Len(s)))

\* The number of characters of s that are not in the set.
RECURSIVE CountOutside(_, _)
CountOutside(s, set) ==
    IF Len(s) = 0 THEN 0
    ELSE (IF Head(s) \in set THEN 0 ELSE 1) + CountOutside(Tail(s), set)

\* C10: the URL requested is the base forecast endpoint, the percent-encoded
\* API key, "/", the latitude's decimal string, a comma and the longitude's
\* decimal string.  The part for the key holds only unreserved characters
\* and %XX escapes, it decodes to the key, and exactly the characters of the
\* key that are not unreserved are escaped; the coordinates follow as their
\* Display text, with their sign, dot and the comma as they are.  The key
\* "abc 123" at 10.5, -20.25 gives .../forecast/abc%20123/10.5,-20.25.
C10_RequestUrl ==
    pc # "idle" =>
        LET url    == requests[1]
            base   == <<"h", "t", "t", "p", "s", ":", "/", "/", "a", "p", "i", ".", "d", "a", "r", "k", "s", "k", "y", ".", "n", "e", "t", "/", "f", "o", "r", "e", "c", "a", "s", "t", "/">>
            rest   == SubSeq(url, Len(base) + 1, Len(url))
            slash  == IndexOf(rest, "/")
            key    == SubSeq(rest, 1, slash - 1)
            coords == SubSeq(rest, slash + 1, Len(rest))
        IN  /\ SubSeq(url, 1, Len(base)) = base
            /\ slash > 0
            /\ \A i \in 1..Len(key) : key[i] \in Unreserved \cup {"%"}
            /\ PercentDecode(key) = args.api_key
            /\ Len(key) = Len(args.api_key) + 2 * CountOutside(args.api_key, Unreserved)
            /\ coords = DecimalChars(args.lat) \o <<",">> \o DecimalChars(args.lng)
            /\ \A i \in 1..Len(coords) : coords[i] \in DigitSet \cup {"-", ".", ","}
            /\ (/\ args.api_key = <<"a", "b", "c", " ", "1", "2", "3">>
                /\ args.lat = Dec(105, 1)
                /\ args.lng = Dec(-2025, 2))
               => url = <<"h", "t", "t", "p", "s", ":", "/", "/", "a", "p", "i", ".", "d", "a", "r", "k", "s", "k", "y", ".", "n", "e", "t", "/", "f", "o", "r", "e", "c", "a", "s", "t", "/", "a", "b", "c", "%", "2", "0", "1", "2", "3", "/", "1", "0", ".", "5", ",", "-", "2", "0", ".", "2", "5">>

\* The key "abc 123" was sent for 10.5, -20.25, its space as %20.
C10_Witness ==
    /\ pc = "get"
    /\ args = [api_key |-> <<"a", "b", "c", " ", "1", "2", "3">>, lat |-> Dec(105, 1), lng |-> Dec(-2025, 2)]
    /\ requests = <<<<"h", "t", "t", "p", "s", ":", "/", "/", "a", "p", "i", ".", "d", "a", "r", "k", "s", "k", "y", ".", "n", "e", "t", "/", "f", "o", "r", "e", "c", "a", "s", "t", "/", "a", "b", "c", "%", "2", "0", "1", "2", "3", "/", "1", "0", ".", "5", ",", "-", "2", "0", ".", "2", "5">>>>

----------------------------------------------------------------------------
(* The summary                                                             *)

\* Whether a text came out of get_current_weather_str or of fmt.
Summarized == out.op \in {"get_current_weather_str", "fmt"}

\* The text after the first degree sign: the unit label and what follows.
AfterDegree(text) == SubSeq(text, IndexOf(text, "U+00B0") + 1, Len(text))

\* C7: the unit label of the summary is "F" if and only if flags.units is
\* exactly "us"; for every other value ("uk2", "si", "ca", the empty string,
\* "US", "us " with a space) it is "C".
C7_UnitLabel ==
    Summarized =>
        LET rest  == AfterDegree(out.text)
            units == result.val.flags.units
        IN  /\ Len(rest) >= 1
            /\ rest[1] = "F" <=> units = <<"u", "s">>
            /\ rest[1] # "F" => rest[1] = "C"

\* A summary of a forecast whose units are "US" has the label "C".
C7_Witness ==
    /\ out.op = "get_current_weather_str"
    /\ result.val.flags.units = <<"U", "S">>
    /\ AfterDegree(out.text)[1] = "C"

\* The table of icon names and glyphs.
IconTable ==
    << <<<<"c", "l", "e", "a", "r", "-", "d", "a", "y">>, <<"U+2600", "U+FE0F">>>>,
       <<<<"c", "l", "e", "a", "r", "-", "n", "i", "g", "h", "t">>, <<"U+1F319">>>>,
       <<<<"r", "a", "i", "n">>, <<"U+1F327">>>>,
       <<<<"s", "n", "o", "w">>, <<"U+1F328">>>>,
       <<<<"s", "l", "e", "e", "t">>, <<"U+1F328">>>>,
       <<<<"w", "i", "n", "d">>, <<"U+1F4A8">>>>,
       <<<<"f", "o", "g">>, <<"U+1F32B">>>>,
       <<<<"c", "l", "o", "u", "d", "y">>, <<"U+2601", "U+FE0F">>>>,
       <<<<"p", "a", "r", "t", "l", "y", "-", "c", "l", "o", "u", "d", "y", "-", "d", "a", "y">>, <<"U+26C5", "U+FE0F">>>>,
       <<<<"p", "a", "r", "t", "l", "y", "-", "c", "l", "o", "u", "d", "y", "-", "n", "i", "g", "h", "t">>, <<"U+1F319">>>>,
       <<<<"h", "a", "i", "l">>, <<"U+1F327">>>>,
       <<<<"t", "h", "u", "n", "d", "e", "r", "s", "t", "o", "r", "m">>, <<"U+26C8">>>>,
       <<<<"t", "o", "r", "n", "a", "d", "o">>, <<"U+1F32A">>>> >>

IconNames == {IconTable[i][1] : i \in 1..Len(IconTable)}

ExpectedGlyph(icon) ==
    IF icon \in IconNames
    THEN IconTable[CHOOSE i \in 1..Len(IconTable) : IconTable[i][1] = icon][2]
    ELSE <<>>

\* The glyph of a summary text: what stands between the space after the
\* unit label and the space before the summary of the conditions.
GlyphOf(text, summary) ==
    LET rest == AfterDegree(text)
    IN  SubSeq(rest, 3, Len(rest) - Len(summary) - 1)

\* C8: the icon of the summary is looked up in a table of thirteen names by
\* exact match: each of the thirteen names gives its glyph, which is not
\* empty, and every other string (the empty one, another case, a name with
\* a space after it, the beginning of a name) gives the empty string.
C8_IconTable ==
    /\ Cardinality(IconNames) = 13
    /\ Summarized =>
          LET icon  == result.val.currently.icon
              glyph == GlyphOf(out.text, result.val.currently.summary)
          IN  /\ glyph = ExpectedGlyph(icon)
              /\ icon \in IconNames <=> glyph # <<>>

\* A summary with the icon "partly-cloudy-night" has the moon.
C8_Witness ==
    /\ out.op = "get_current_weather_str"
    /\ result.val.currently.icon = <<"p", "a", "r", "t", "l", "y", "-", "c", "l", "o", "u", "d", "y", "-", "n", "i", "g", "h", "t">>
    /\ GlyphOf(out.text, result.val.currently.summary) = <<"U+1F319">>

\* Whether n tenths is the f32 t rounded to tenths: |10 * |t| - n| <= 1/2.
NearestTenths(t, n) ==
    LET a == Abs(t.sig)
    IN  IF t.exp >= 0
        THEN Abs(20 * a * Pow2(t.exp) - 2 * n) <= 1
        ELSE Abs(20 * a - 2 * n * Pow2(-t.exp)) <= Pow2(-t.exp)

C9_SummaryTotalPure ==
    /\ [](pc = "done" /\ result.tag = "ok" =>
            /\ ENABLED Summary
            /\ Len(get_current_weather_str(result.val)) >= 3)
    /\ [][out'.op = "get_current_weather_str" /\ out' # out =>
            UNCHANGED <<pc, calls, requests, args, response_body, result>>]_vars

\* A summary was given for a forecast with empty units and the icon
\* "bogus-icon".
C9_Witness ==
    /\ out.op = "get_current_weather_str"
    /\ result.val.flags.units = <<>>
    /\ result.val.currently.icon = <<"b", "o", "g", "u", "s", "-", "i", "c", "o", "n">>
    /\ Len(out.text) >= 3

----------------------------------------------------------------------------
(* Parsing                                                                 *)

\* Whether a body was read and the call has returned.
Parsed == pc = "done" /\ response_body # NoBody /\ response_body.k # "garbage"

\* Whether the JSON value v is not of the type a field of the primitive
\* type p has: another kind of value, a number with a fraction or out of
\* range for an integer, a string that is no decimal for a Decimal.
PrimitiveMismatch(p, v) ==
    CASE p = "String"  -> v.k # "str"
      [] p = "f32"     -> v.k # "num"
      [] p = "u64"     -> v.k # "num" \/ v.e # 0 \/ v.m < 0
      [] p = "u16"     -> v.k # "num" \/ v.e # 0 \/ v.m < 0 \/ v.m > 65535
      [] p = "u8"      -> v.k # "num" \/ v.e # 0 \/ v.m < 0 \/ v.m > 255
      [] p = "i8"      -> v.k # "num" \/ v.e # 0 \/ v.m < -128 \/ v.m > 127
      [] p = "Decimal" -> ~(v.k = "num" \/ (v.k = "str" /\ IsDecimalText(v.s)))

\* Whether the object o, read as the struct, lacks a required field or has
\* a required field of the wrong type, in itself or in an object within it.
\* A struct is an object on the wire, a Vec an array.
RECURSIVE RequiredFault(_, _)
RECURSIVE RequiredFaultIn(_, _, _)
RequiredFault(struct, o) ==
    \E i \in 1..Len(Fields(struct)) :
        LET f == Fields(struct)[i]
        IN  IF f.wire \notin DOMAIN o THEN ~f.opt
            ELSE RequiredFaultIn(f, o[f.wire], ~f.opt)

\* The fault of the value v of the field f; its own type counts when the
\* field is required, the required fields of the objects in it always.
RequiredFaultIn(f, v, own) ==
    LET element(w) ==
            IF f.ty \in StructNames
            THEN IF w.k = "obj" THEN RequiredFault(f.ty, w.o) ELSE own
            ELSE own /\ PrimitiveMismatch(Alias(f.ty), w)
    IN  IF f.vec
        THEN IF v.k = "arr" THEN \E j \in 1..Len(v.a) : element(v.a[j]) ELSE own
        ELSE element(v)

\* C3: a body that lacks a required field, or has a value of the wrong type
\* for a required field, at the root or in any object within it, does not
\* parse: DarkskyResult::new returns the parser's error and no model.
C3_RequiredFaultFails ==
    Parsed /\ response_body.k = "obj" /\ RequiredFault("DarkskyResult", response_body.o)
        => result = ResultErr("serde_json::Error")

\* The model of the struct at a path of the document it was read from.
RECURSIVE ModelAt(_, _, _)
ModelAt(x, struct, path) ==
    IF Len(path) = 0 THEN x
    ELSE LET f == FieldByWire(struct, Head(path).key)
             y == IF f.opt THEN x[f.rust].val ELSE x[f.rust]
         IN  IF f.vec THEN ModelAt(y[path[2].idx], f.ty, SubSeq(path, 3, Len(path)))
             ELSE ModelAt(y, f.ty, Tail(path))

FullModel == from_str(FullBody).val

\* Whether the model x, read from body, has for every field that holds no
\* struct, but the field rust of the place p, the value FullModel has.
OthersUnaffected(x, body, p, rust) ==
    \A q \in 1..Len(Places) :
        Reaches(body, Places[q].path) =>
            \A i \in 1..Len(Fields(Places[q].struct)) :
                LET g == Fields(Places[q].struct)[i]
                IN  g.ty \notin StructNames /\ ~(q = p /\ g.rust = rust) =>
                        ModelAt(x, "DarkskyResult", Places[q].path)[g.rust]
                            = ModelAt(FullModel, "DarkskyResult", Places[q].path)[g.rust]

\* Whether the full document without the member wire of the place p was
\* read, parsed, and gave a model with that field None and the others as
\* they are in the model of the full document.
OmissionAbsent(p, f) ==
    /\ result.tag = "ok"
    /\ ModelAt(result.val, "DarkskyResult", Places[p].path)[f.rust] = None
    /\ OthersUnaffected(result.val, response_body, p, f.rust)

\* The fields of DailyWeather that are the time of a maximum or a peak.
PeakTimes ==
    {"precipIntensityMaxTime", "temperatureHighTime", "apparentTemperatureHighTime",
     "windGustTime", "uvIndexTime"}

\* C4 as it is stated: the full document without one of the optional fields
\* the claim lists (the Options of the structs and every time of a maximum
\* or a peak of DailyWeather) parses, with that field absent and every
\* other field as before.
C4_AsStated ==
    pc = "done" =>
        \A p \in 1..Len(Places) :
            \A i \in 1..Len(Fields(Places[p].struct)) :
                LET f == Fields(Places[p].struct)[i]
                IN  (f.opt \/ (Places[p].struct = "DailyWeather" /\ f.wire \in PeakTimes))
                    /\ response_body = Changed(FullBody, Places[p], f.wire, 0)
                        => result.tag = "ok"

\* C4, amended: the full document without one of the fields that are
\* Options (minutely, alerts, nearestStormDistance, nearestStormBearing,
\* precipType and, of the times, precipIntensityMaxTime alone) parses, with
\* that field None and every other field as in the full document's model;
\* and the document without any of them parses, with all of them None.
C4_OptionAbsent ==
    pc = "done" =>
        /\ \A p \in 1..Len(Places) :
              \A i \in 1..Len(Fields(Places[p].struct)) :
                  LET f == Fields(Places[p].struct)[i]
                  IN  f.opt /\ response_body = Changed(FullBody, Places[p], f.wire, 0)
                          => OmissionAbsent(p, f)
        /\ response_body = MinimalBody =>
              /\ result.tag = "ok"
              /\ result.val.minutely = None
              /\ result.val.alerts = None
              /\ result.val.currently.nearest_storm_distance = None
              /\ result.val.currently.nearest_storm_bearing = None
              /\ result.val.currently.precip_type = None
              /\ result.val.daily.data[1].precip_intensity_max_time = None
              /\ result.val.daily.data[1].precip_type = None

\* The full document without precipIntensityMaxTime in the first day was
\* read: that field is None, the day's uv_index_time is there.
C4_Witness ==
    /\ pc = "done"
    /\ result.tag = "ok"
    /\ "precipIntensityMaxTime" \notin DOMAIN response_body.o.daily.o.data.a[1].o
    /\ result.val.daily.data[1].precip_intensity_max_time = None
    /\ result.val.daily.data[1].uv_index_time = HourAfter(36)
    /\ result.val.minutely.some

----------------------------------------------------------------------------
(* Parsing and writing again                                               *)

\* Whether the JSON value v is what the wire schema has for the primitive
\* type p: a string, a number, an integer in the range of its type.
PrimitiveConforms(p, v) ==
    IF p = "Decimal" THEN v.k = "num" ELSE ~PrimitiveMismatch(p, v)

\* Whether the object o is a well-formed payload for the struct: every
\* required field is there, every field that is there (and not null, for an
\* optional one) has its type, objects for structs and arrays for Vecs.
RECURSIVE Conforms(_, _)
Conforms(struct, o) ==
    \A i \in 1..Len(Fields(struct)) :
        LET f == Fields(struct)[i]
            element(w) ==
                IF f.ty \in StructNames THEN w.k = "obj" /\ Conforms(f.ty, w.o)
                ELSE PrimitiveConforms(Alias(f.ty), w)
        IN  IF f.wire \notin DOMAIN o THEN f.opt
            ELSE LET v == o[f.wire]
                 IN  IF f.opt /\ v.k = "null" THEN TRUE
                     ELSE IF f.vec
                     THEN v.k = "arr" /\ \A j \in 1..Len(v.a) : element(v.a[j])
                     ELSE element(v)

\* Whether a well-formed payload was read and the model written as JSON.
RoundTrip ==
    /\ pc = "done"
    /\ out.op = "serialize"
    /\ response_body.k = "obj"
    /\ Conforms("DarkskyResult", response_body.o)

\* The number m * 10^-e with no zero at the end of its fraction.
RECURSIVE Normal(_, _)
Normal(m, e) ==
    IF e > 0 /\ m % 10 = 0 THEN Normal(m \div 10, e - 1) ELSE <<m, e>>

\* Whether two JSON numbers have the same value.
SameNumber(a, b) == Normal(a.m, a.e) = Normal(b.m, b.e)

\* The decimal a JSON number, or a string of a number, stands for.
DecimalOf(v) == IF v.k = "str" THEN DecimalFromText(v.s) ELSE Dec(v.m, v.e)

\* The digits of n from its first to its last that is not zero.
RECURSIVE SignificantDigits(_)
SignificantDigits(n) ==
    IF n = 0 THEN 0
    ELSE IF n % 10 = 0 THEN SignificantDigits(n \div 10)
    ELSE Len(NatChars(Abs(n)))

\* Whether the value written for a primitive is the value read: exact tells
\* whether an f32 has to come back with its very value, or as the f32
\* nearest to it (and with its very value when it has at most 6 digits).
PrimitiveKept(p, in, w, exact) ==
    CASE p = "Decimal" ->
            /\ w.k \in {"num", "str"}
            /\ w.k = "str" => IsDecimalText(w.s)
            /\ SameNumber(DecimalOf(in), DecimalOf(w))
      [] p = "f32" ->
            /\ w.k = "num"
            /\ IF exact \/ SignificantDigits(in.m) <= 6 THEN SameNumber(in, w)
               ELSE ToF32(w.m, w.e) = ToF32(in.m, in.e)
      [] OTHER -> w = in

\* Whether the object written, w, keeps what the object read, o, has for
\* the struct.  A field that was read has to be written with its value.
\* An optional field that was not there, or null, has to be null when
\* asNull, and may also be left out otherwise.
RECURSIVE Kept(_, _, _, _, _)
Kept(struct, o, w, exact, asNull) ==
    \A i \in 1..Len(Fields(struct)) :
        LET f == Fields(struct)[i]
            element(a, b) ==
                IF f.ty \in StructNames
                THEN b.k = "obj" /\ Kept(f.ty, a.o, b.o, exact, asNull)
                ELSE PrimitiveKept(Alias(f.ty), a, b, exact)
        IN  IF f.wire \notin DOMAIN o \/ o[f.wire].k = "null"
            THEN IF asNull THEN f.wire \in DOMAIN w /\ w[f.wire] = Null
                 ELSE f.wire \in DOMAIN w => w[f.wire] = Null
            ELSE /\ f.wire \in DOMAIN w
                 /\ IF f.vec
                    THEN /\ w[f.wire].k = "arr"
                         /\ Len(w[f.wire].a) = Len(o[f.wire].a)
                         /\ \A j \in 1..Len(o[f.wire].a) :
                               element(o[f.wire].a[j], w[f.wire].a[j])
                    ELSE element(o[f.wire], w[f.wire])

============================================================================
